---- MODULE Spec2Model ----
(***************************************************************************)
(* Transform-and-load pipeline of .github/workflows/data_process.py:       *)
(* transform_to_custom_schema() reads the per-entity-type Parquet files,   *)
(* builds final_routes and final_stops_maas, generates the TRUNCATE/INSERT *)
(* statements and writes them between BEGIN and COMMIT; main() then sends  *)
(* the file to the destination store in one cur.execute().                 *)
(*                                                                         *)
(* Text is a sequence of one-character strings.  A column value is a       *)
(* tagged record: Str(s), Num(n) or NULL.                                  *)
(***************************************************************************)
EXTENDS Integers, Sequences, FiniteSets, TLC

\* ---------------------------------------------------------------- bounds
MaxRecs == 2
MaxRuns == 2

\* ---------------------------------------------------------------- values
NULL == [t |-> "null", s |-> <<>>, n |-> 0]
Str(s) == [t |-> "str", s |-> s, n |-> 0]
Num(n) == [t |-> "num", s |-> <<>>, n |-> n]

Min(S) == CHOOSE x \in S : \A y \in S : x <= y
Max(S) == CHOOSE x \in S : \A y \in S : x >= y

\* Python's `t in s` / SQL's  s LIKE '%t%'  on text
Contains(s, t) ==
  \E i \in 0..(Len(s) - Len(t)) : SubSeq(s, i + 1, i + Len(t)) = t

JR == <<"J", "R">>
Toei == <<"T", "o", "e", "i">>
OP_JR_EAST == <<"O", "P", "_", "J", "R", "_", "E", "A", "S", "T">>
OP_TOEI == <<"O", "P", "_", "T", "O", "E", "I">>
OP_OTHER == <<"O", "P", "_", "O", "T", "H", "E", "R">>

\* ---------------------------------------------------------------- config
MAPPING_TABLES ==
  [railway |-> "routes", station |-> "stops_maas", stops |-> "stops_maas"]
EntityTypes == DOMAIN MAPPING_TABLES
TableOrderReversed == <<"routes", "stops_maas">>
TableOrder == <<"stops_maas", "routes">>
Tables == {"stops_maas", "routes"}

\* ---------------------------------------------------------------- inputs
\* operator reference of a source record: absent, one string, or a list
Absent == [shape |-> "absent", vals |-> <<>>]
Single(s) == [shape |-> "single", vals |-> <<s>>]
Many(ss) == [shape |-> "list", vals |-> ss]

SourceRecord(uri, op, title) ==
  [sameAs |-> uri, operator |-> op, title |-> title,
   lineCode |-> <<"J", "C">>, lat |-> 3, lon |-> 9]

RailOps ==
  { Absent, Single(JR), Single(Toei), Single(Toei \o JR),
    Single(<<"j", "r">> \o Toei), Single(<<"X">>) }
RailwayRecs == { SourceRecord(<<"R", ".", "C">>, op, <<"c">>) : op \in RailOps }

StationRecs ==
  { SourceRecord(<<"A", ".", "s">>, Absent, <<"a">>),
    SourceRecord(<<"B", ".", "s">>, Absent, <<"b">>),
    SourceRecord(<<"s">>, Absent, <<"n">>),
    SourceRecord(<<"A", ".">>, Absent, <<"e">>) }

StopRecs ==
  { SourceRecord(<<"P", ".", "s">>, Absent, <<"p">>),
    SourceRecord(<<"P", ".", "q">>, Single(Toei), <<"q">>),
    SourceRecord(<<"P", ".", "q">>, Many(<<<<"X">>, JR>>), <<"q">>),
    SourceRecord(<<"P", ".", "q">>, Many(<<<<"X">>>>), <<"q">>),
    SourceRecord(<<"P", ".", "s">>, Single(<<"X">>), <<"p">>) }

RecsOf(et) ==
  CASE et = "railway" -> RailwayRecs
    [] et = "station" -> StationRecs
    [] et = "stops" -> StopRecs

Tokens == {JR, Toei}

OldRow(c) == <<Str(<<c>>), Str(<<"o">>), Num(1), Num(1), Num(0)>>
PriorStores ==
  { [stops_maas |-> <<>>, routes |-> <<>>],
    [stops_maas |-> <<OldRow("s")>>, routes |-> <<OldRow("C")>>] }

NoTable == [exists |-> FALSE, rows |-> <<>>]
Table(rows) == [exists |-> TRUE, rows |-> rows]

VARIABLES
  fetched,              \* source records per entity type, before filtering
  present,              \* entity types whose Parquet file gets written
  token,                \* target-operator token of the Operator Filter
  mode,                 \* "export": __main__ block; "direct": main()
  db_url,               \* SUPABASE_DB_URL is set
  parquet,              \* output/<type>.parquet
  raw,                  \* DuckDB raw_<type> tables
  final_routes,
  final_stops_maas,
  final_sql_statements,
  file,                 \* statements in OUTPUT_SQL_FILE
  out,                  \* messages printed by the current run
  pc,
  status,               \* process exit status
  k,                    \* next statement of the query string
  txn,                  \* server transaction block
  work,                 \* table contents as seen inside the session
  db,                   \* committed table contents
  before,               \* committed contents when the run started
  failed_at,            \* index of the statement that failed, 0 if none
  hist                  \* one entry per finished run

vars ==
  <<fetched, present, token, mode, db_url, parquet, raw, final_routes,
    final_stops_maas, final_sql_statements, file, out, pc, status, k, txn,
    work, db, before, failed_at, hist>>

inputVars == <<fetched, present, token, mode, db_url>>

Msg(m, a) == [msg |-> m, arg |-> a]

Init ==
  /\ \E lr \in 0..MaxRecs :
       \E ls \in 0..(MaxRecs - lr) :
         \E lb \in 0..(MaxRecs - lr - ls) :
           \E r \in [1..lr -> RailwayRecs] :
             \E s \in [1..ls -> StationRecs] :
               \E b \in [1..lb -> StopRecs] :
                 fetched = [railway |-> r, station |-> s, stops |-> b]
  /\ present \in SUBSET EntityTypes
  /\ \A et \in EntityTypes : fetched[et] # <<>> => et \in present
  /\ token \in Tokens
  /\ mode \in {"export", "direct"}
  /\ db_url \in BOOLEAN
  /\ mode = "export" => db_url = FALSE
  /\ parquet = [et \in EntityTypes |-> NoTable]
  /\ raw = [et \in EntityTypes |-> NoTable]
  /\ final_routes = NoTable
  /\ final_stops_maas = NoTable
  /\ final_sql_statements = <<>>
  /\ file = <<>>
  /\ out = {}
  /\ pc = "ingest"
  /\ status = 0
  /\ k = 0
  /\ txn = "none"
  /\ db \in PriorStores
  /\ work = db
  /\ before = db
  /\ failed_at = 0
  /\ hist = <<>>

\* ------------------------------------------------- Operator Filter (4.1)
\* retained: operator absent, or the one value contains the token, or at
\* least one element of the list contains it
OperatorFilterRetainAll(r, tok) == TRUE

OperatorFilter(r, tok) ==
  CASE r.operator.shape = "absent" -> TRUE
    [] r.operator.shape = "single" -> Contains(r.operator.vals[1], tok)
    [] r.operator.shape = "list" ->
         \E i \in 1..Len(r.operator.vals) : Contains(r.operator.vals[i], tok)

Retained(recs, tok) ==
  LET Keep(r) == OperatorFilter(r, tok) IN SelectSeq(recs, Keep)

\* the ingestion step that precedes the transformation: filters each fetched
\* batch and writes output/<type>.parquet for the types that were fetched
process_and_compress_data(recs, types, tok) ==
  [et \in EntityTypes |->
     IF et \in types THEN Table(Retained(recs[et], tok)) ELSE NoTable]

\* ------------------------------------------------- transform_to_custom_schema
\* for odpt_name in MAPPING_TABLES: CREATE TABLE raw_<name> if the file exists
LoadRaw(pq) ==
  [et \in EntityTypes |-> IF pq[et].exists THEN Table(pq[et].rows) ELSE NoTable]

LoadWarnings(pq) == { Msg("warning", et) : et \in {e \in EntityTypes : ~pq[e].exists} }

\* the "odpt:operator" column of raw_railway
OperatorColumn(r) ==
  IF r.operator.shape = "absent" THEN NULL ELSE Str(r.operator.vals[1])

\* SUBSTRING(x FROM '[^.]+$'): the leftmost match of one or more non-dot
\* characters that ends at the end of the text; NULL when there is none
ExtractIdFirstSegment(v) ==
  IF v.t # "str" THEN NULL
  ELSE LET s == v.s
           ends == { i \in 1..Len(s) : \A j \in 1..i : s[j] # "." }
       IN IF ends = {} THEN NULL ELSE Str(SubSeq(s, 1, Max(ends)))

ExtractId(v) ==
  IF v.t # "str" THEN NULL
  ELSE LET s == v.s
           starts == { i \in 1..Len(s) : \A j \in i..Len(s) : s[j] # "." }
       IN IF starts = {} THEN NULL ELSE Str(SubSeq(s, Min(starts), Len(s)))

\* WHEN x LIKE '%t%': taken only when the comparison is true (not NULL)
WhenLike(v, t) == v.t = "str" /\ Contains(v.s, t)

OperatorIdToeiFirst(op) ==
  IF WhenLike(op, Toei) THEN OP_TOEI
  ELSE IF WhenLike(op, JR) THEN OP_JR_EAST
  ELSE OP_OTHER

OperatorId(op) ==
  IF WhenLike(op, JR) THEN OP_JR_EAST
  ELSE IF WhenLike(op, Toei) THEN OP_TOEI
  ELSE OP_OTHER

RouteRow(r) ==
  << ExtractId(Str(r.sameAs)), Str(OperatorId(OperatorColumn(r))),
     Str(r.lineCode), Str(r.title), Num(2) >>

StationRow(r) ==
  << ExtractId(Str(r.sameAs)), Str(r.title), Num(r.lat), Num(r.lon), Num(1) >>

BusstopRow(r) ==
  << ExtractId(Str(r.sameAs)), Str(r.title), Num(r.lat), Num(r.lon), Num(0) >>

Routes(railway) == [i \in 1..Len(railway) |-> RouteRow(railway[i])]

\* station_query UNION ALL busstop_query
StopsMaas(station, stops) ==
  [i \in 1..Len(station) |-> StationRow(station[i])]
    \o [i \in 1..Len(stops) |-> BusstopRow(stops[i])]

\* ------------------------------------------------- statement generation
DigitChar == <<"0", "1", "2", "3", "4", "5", "6", "7", "8", "9">>

RECURSIVE Digits(_)
Digits(n) ==
  IF n < 10 THEN <<DigitChar[n + 1]>>
  ELSE Digits(n \div 10) \o <<DigitChar[(n % 10) + 1]>>

\* f"'{v}'" if isinstance(v, str) else str(v)
Literal(v) ==
  CASE v.t = "str" -> <<"'">> \o v.s \o <<"'">>
    [] v.t = "num" -> Digits(v.n)
    [] v.t = "null" -> <<"N", "o", "n", "e">>

Stmt(kind, table, values) == [kind |-> kind, table |-> table, values |-> values]

InsertsOf(custom_table, rows) ==
  [i \in 1..Len(rows) |->
     Stmt("INSERT", custom_table, [c \in 1..Len(rows[i]) |-> Literal(rows[i][c])])]

generate_insert_sql_NoTruncate(custom_table, rows) == InsertsOf(custom_table, rows)

generate_insert_sql_SkipEmpty(custom_table, rows) ==
  IF rows = <<>> THEN <<>>
  ELSE <<Stmt("TRUNCATE", custom_table, <<>>)>> \o InsertsOf(custom_table, rows)

generate_insert_sql(custom_table, rows) ==
  <<Stmt("TRUNCATE", custom_table, <<>>)>>
    \o [i \in 1..Len(rows) |->
          Stmt("INSERT", custom_table,
               [c \in 1..Len(rows[i]) |-> Literal(rows[i][c])])]

RECURSIVE GenerateAll(_, _)
GenerateAll(order, finals) ==
  IF order = <<>> THEN <<>>
  ELSE generate_insert_sql(Head(order), finals[Head(order)])
         \o GenerateAll(Tail(order), finals)

\* BEGIN; <statements> COMMIT;
RECURSIVE CommitEach(_)
CommitEach(stmts) ==
  IF stmts = <<>> THEN <<>>
  ELSE <<Head(stmts), Stmt("COMMIT", "", <<>>)>> \o CommitEach(Tail(stmts))

ScriptFileCommitEach(stmts) == <<Stmt("BEGIN", "", <<>>)>> \o CommitEach(stmts)

ScriptFile(stmts) ==
  <<Stmt("BEGIN", "", <<>>)>> \o stmts \o <<Stmt("COMMIT", "", <<>>)>>

\* ------------------------------------------------- main
\* if db_url: ... else: print("SUPABASE_DB_URL not found. Skipping direct upload.")
UploadBranchAlways(url) == "connect"

UploadBranch(url) == IF url THEN "connect" ELSE "skip"

\* ------------------------------------------------- destination store
IsDigit(c) == \E d \in 1..10 : DigitChar[d] = c
DigitValue(c) == (CHOOSE d \in 1..10 : DigitChar[d] = c) - 1

RECURSIVE NumberOf(_)
NumberOf(txt) ==
  IF Len(txt) = 1 THEN DigitValue(txt[1])
  ELSE 10 * NumberOf(SubSeq(txt, 1, Len(txt) - 1)) + DigitValue(txt[Len(txt)])

\* the value the server reads from one literal of a VALUES list
LiteralOk(txt) ==
  \/ /\ Len(txt) >= 2
     /\ txt[1] = "'"
     /\ txt[Len(txt)] = "'"
     /\ \A i \in 2..(Len(txt) - 1) : txt[i] # "'"
  \/ /\ Len(txt) >= 1
     /\ \A i \in 1..Len(txt) : IsDigit(txt[i])

LiteralValue(txt) ==
  IF txt[1] = "'" THEN Str(SubSeq(txt, 2, Len(txt) - 1)) ELSE Num(NumberOf(txt))

StatementOk(st) ==
  st.kind = "INSERT" => \A c \in 1..Len(st.values) : LiteralOk(st.values[c])

\* effect of one statement on the session's view of the tables
Apply(st, w) ==
  CASE st.kind = "TRUNCATE" -> [w EXCEPT ![st.table] = <<>>]
    [] st.kind = "INSERT" ->
         [w EXCEPT ![st.table] =
            Append(@, [c \in 1..Len(st.values) |-> LiteralValue(st.values[c])])]
    [] OTHER -> w

\* ------------------------------------------------- actions
runVars == <<raw, final_routes, final_stops_maas, final_sql_statements>>
storeVars == <<k, txn, work, db, failed_at>>

\* download and Parquet compression, run before the transformation
Ingest ==
  /\ pc = "ingest"
  /\ parquet' = process_and_compress_data(fetched, present, token)
  /\ pc' = "load"
  /\ UNCHANGED <<inputVars, runVars, storeVars, file, out, status, before, hist>>

LoadParquet ==
  /\ pc = "load"
  /\ raw' = LoadRaw(parquet)
  /\ out' = out \cup LoadWarnings(parquet)
  /\ pc' = "routes"
  /\ UNCHANGED <<inputVars, parquet, final_routes, final_stops_maas,
                 final_sql_statements, storeVars, file, status, before, hist>>

TransformRoutes ==
  /\ pc = "routes"
  /\ raw["railway"].exists
  /\ final_routes' = Table(Routes(raw["railway"].rows))
  /\ pc' = "stops"
  /\ UNCHANGED <<inputVars, parquet, raw, final_stops_maas,
                 final_sql_statements, storeVars, file, out, status, before, hist>>

\* FROM raw_railway with no such table: the query raises and nothing catches it
TransformRoutesFails ==
  /\ pc = "routes"
  /\ ~raw["railway"].exists
  /\ status' = 1
  /\ pc' = "ending"
  /\ UNCHANGED <<inputVars, parquet, runVars, storeVars, file, out, before, hist>>

TransformStops ==
  /\ pc = "stops"
  /\ raw["station"].exists
  /\ raw["stops"].exists
  /\ final_stops_maas' = Table(StopsMaas(raw["station"].rows, raw["stops"].rows))
  /\ pc' = "generate"
  /\ UNCHANGED <<inputVars, parquet, raw, final_routes,
                 final_sql_statements, storeVars, file, out, status, before, hist>>

TransformStopsFails ==
  /\ pc = "stops"
  /\ ~(raw["station"].exists /\ raw["stops"].exists)
  /\ status' = 1
  /\ pc' = "ending"
  /\ UNCHANGED <<inputVars, parquet, runVars, storeVars, file, out, before, hist>>

Finals == [stops_maas |-> final_stops_maas.rows, routes |-> final_routes.rows]

GenerateSql ==
  /\ pc = "generate"
  /\ final_sql_statements' = GenerateAll(TableOrder, Finals)
  /\ pc' = "write"
  /\ UNCHANGED <<inputVars, parquet, raw, final_routes, final_stops_maas,
                 storeVars, file, out, status, before, hist>>

WriteFile ==
  /\ pc = "write"
  /\ file' = ScriptFile(final_sql_statements)
  /\ out' = out \cup {Msg("complete", "")}
  /\ pc' = "returned"
  /\ UNCHANGED <<inputVars, parquet, runVars, storeVars, status, before, hist>>

\* the __main__ block calls transform_to_custom_schema() only
ReturnExport ==
  /\ pc = "returned"
  /\ mode = "export"
  /\ status' = 0
  /\ pc' = "ending"
  /\ UNCHANGED <<inputVars, parquet, runVars, storeVars, file, out, before, hist>>

StartUpload ==
  /\ pc = "returned"
  /\ mode = "direct"
  /\ UploadBranch(db_url) = "connect"
  /\ out' = out \cup {Msg("executing", "")}
  /\ pc' = "connect"
  /\ UNCHANGED <<inputVars, parquet, runVars, storeVars, file, status, before, hist>>

SkipUpload ==
  /\ pc = "returned"
  /\ mode = "direct"
  /\ UploadBranch(db_url) = "skip"
  /\ out' = out \cup {Msg("skip_upload", "")}
  /\ status' = 0
  /\ pc' = "ending"
  /\ UNCHANGED <<inputVars, parquet, runVars, storeVars, file, before, hist>>

\* psycopg2.connect(db_url); autocommit = True; cur.execute(f.read())
Connect ==
  /\ pc = "connect"
  /\ k' = 1
  /\ txn' = "implicit"
  /\ work' = db
  /\ pc' = "exec"
  /\ UNCHANGED <<inputVars, parquet, runVars, db, failed_at, file, out, status,
                 before, hist>>

ConnectFails ==
  /\ pc = "connect"
  /\ pc' = "except"
  /\ UNCHANGED <<inputVars, parquet, runVars, storeVars, file, out, status,
                 before, hist>>

\* the server runs the next statement of the query string
ExecStatement ==
  /\ pc = "exec"
  /\ k <= Len(file)
  /\ StatementOk(file[k])
  /\ k' = k + 1
  /\ txn' = CASE file[k].kind = "BEGIN" -> "explicit"
              [] file[k].kind = "COMMIT" -> "implicit"
              [] OTHER -> txn
  /\ work' = Apply(file[k], work)
  /\ db' = IF file[k].kind = "COMMIT" THEN work ELSE db
  /\ UNCHANGED <<inputVars, parquet, runVars, failed_at, file, out, pc, status,
                 before, hist>>

\* a statement fails: the rest of the query string is skipped and the open
\* transaction is aborted
ExecStatementFails ==
  /\ pc = "exec"
  /\ k <= Len(file)
  /\ file[k].kind \in {"TRUNCATE", "INSERT", "COMMIT"}
  /\ failed_at' = k
  /\ txn' = "aborted"
  /\ work' = db
  /\ pc' = "except"
  /\ UNCHANGED <<inputVars, parquet, runVars, k, db, file, out, status,
                 before, hist>>

\* end of the query string: statements outside an explicit block commit
QueryDone ==
  /\ pc = "exec"
  /\ k > Len(file)
  /\ db' = IF txn = "implicit" THEN work ELSE db
  /\ out' = out \cup {Msg("uploaded", "")}
  /\ status' = 0
  /\ pc' = "ending"
  /\ UNCHANGED <<inputVars, parquet, runVars, k, txn, work, failed_at, file,
                 before, hist>>

\* except Exception: print the error and leave with a non-zero status
Except ==
  /\ pc = "except"
  /\ out' = out \cup {Msg("upload_error", "")}
  /\ status' = 1
  /\ pc' = "ending"
  /\ UNCHANGED <<inputVars, parquet, runVars, storeVars, file, before, hist>>

\* the process ends; the server rolls back whatever the session left open
ProcessExit ==
  /\ pc = "ending"
  /\ hist' = Append(hist, [committed |-> Msg("uploaded", "") \in out,
                           status |-> status, before |-> before, db |-> db])
  /\ txn' = "none"
  /\ work' = db
  /\ pc' = "exit"
  /\ UNCHANGED <<inputVars, parquet, runVars, k, db, failed_at, file, out,
                 status, before>>

\* the pipeline is run again on the same Parquet files
Rerun ==
  /\ pc = "exit"
  /\ Len(hist) < MaxRuns
  /\ raw' = [et \in EntityTypes |-> NoTable]
  /\ final_routes' = NoTable
  /\ final_stops_maas' = NoTable
  /\ final_sql_statements' = <<>>
  /\ out' = {}
  /\ status' = 0
  /\ k' = 0
  /\ failed_at' = 0
  /\ before' = db
  /\ pc' = "load"
  /\ UNCHANGED <<inputVars, parquet, txn, work, db, file, hist>>

Next ==
  \/ Ingest
  \/ LoadParquet
  \/ TransformRoutes
  \/ TransformRoutesFails
  \/ TransformStops
  \/ TransformStopsFails
  \/ GenerateSql
  \/ WriteFile
  \/ ReturnExport
  \/ StartUpload
  \/ SkipUpload
  \/ Connect
  \/ ConnectFails
  \/ ExecStatement
  \/ ExecStatementFails
  \/ QueryDone
  \/ Except
  \/ ProcessExit
  \/ Rerun

Spec == Init /\ [][Next]_vars

TypeOK ==
  /\ pc \in {"ingest", "load", "routes", "stops", "generate", "write",
             "returned", "connect", "exec", "except", "ending", "exit"}
  /\ status \in {0, 1}
  /\ Len(hist) <= MaxRuns

\* ------------------------------------------------- properties
Printed(m) == Msg(m, "") \in out
InsertIdx(stmts, t) ==
  { i \in 1..Len(stmts) : stmts[i].kind = "INSERT" /\ stmts[i].table = t }
TruncateIdx(stmts, t) ==
  { i \in 1..Len(stmts) : stmts[i].kind = "TRUNCATE" /\ stmts[i].table = t }

\* C1: a direct-apply run in which a statement fails leaves every destination
\* table as it was before the run, and the committed contents are never
\* anything but the contents before the run or the complete new contents.
C1_DirectApplyAtomic ==
  /\ failed_at # 0 => db = before
  /\ Printed("upload_error") => db = before
  /\ db # before => db = Finals

C1_Witness ==
  /\ pc = "exit"
  /\ failed_at > 3
  /\ file[failed_at].kind = "INSERT"
  /\ before["stops_maas"] # <<>>
  /\ status = 1
  /\ db = before

\* C2: a script-export run with any input file missing warns for each missing
\* file and still ends successfully with the script written.
C2_MissingInputStillSucceeds ==
  (pc = "exit" /\ mode = "export") =>
     /\ \A et \in EntityTypes : ~parquet[et].exists => Msg("warning", et) \in out
     /\ status = 0
     /\ Printed("complete")
     /\ file = ScriptFile(final_sql_statements)
     /\ file # <<>>

\* C3: in the emitted statement sequence every statement of stops_maas comes
\* before every statement of routes.
C3_StopsBeforeRoutes ==
  \A i, j \in 1..Len(final_sql_statements) :
    (final_sql_statements[i].table = "stops_maas"
       /\ final_sql_statements[j].table = "routes") => i < j

C3_Witness ==
  /\ Printed("complete")
  /\ InsertIdx(final_sql_statements, "stops_maas") # {}
  /\ InsertIdx(final_sql_statements, "routes") # {}

\* C4: a script-export run that ends successfully never has two INSERTs of
\* one table with the same id.
C4_NoDuplicateIdsUnlessFailed ==
  (pc = "exit" /\ mode = "export" /\ status = 0) =>
     \A t \in Tables :
       \A i, j \in InsertIdx(final_sql_statements, t) :
         i # j => final_sql_statements[i].values[1] # final_sql_statements[j].values[1]

\* C5: the rows of routes and stops_maas, and the INSERTs generated from them,
\* are exactly the projections of the fetched records whose operator is
\* absent, or contains the token, or is a list with an element containing it.
C5_OnlyRetainedRecordsReachOutput ==
  LET Kept(r) ==
        \/ r.operator.shape = "absent"
        \/ r.operator.shape = "single" /\ Contains(r.operator.vals[1], token)
        \/ r.operator.shape = "list"
             /\ \E i \in 1..Len(r.operator.vals) : Contains(r.operator.vals[i], token)
      kr == SelectSeq(fetched["railway"], Kept)
      ks == SelectSeq(fetched["station"], Kept)
      kb == SelectSeq(fetched["stops"], Kept)
  IN /\ final_routes.exists => final_routes.rows = Routes(kr)
     /\ final_stops_maas.exists => final_stops_maas.rows = StopsMaas(ks, kb)
     /\ Printed("complete") =>
          /\ Cardinality(InsertIdx(final_sql_statements, "routes")) = Len(kr)
          /\ Cardinality(InsertIdx(final_sql_statements, "stops_maas"))
               = Len(ks) + Len(kb)

C5_Witness ==
  /\ Printed("complete")
  /\ Len(final_routes.rows) < Len(fetched["railway"])
  /\ Len(final_stops_maas.rows) = 1
  /\ Len(fetched["stops"]) = 1
  /\ fetched["stops"][1].operator.shape = "list"
  /\ Len(fetched["station"]) = 0

\* C6: once a run has applied its script, the tables hold exactly the
\* transformed rows, and every later run on the same input leaves them with
\* the same rows.
C6_RerunIdempotent ==
  /\ \A i \in 1..Len(hist) :
       hist[i].committed => \A j \in i..Len(hist) : hist[j].db = hist[i].db
  /\ (pc = "exit" /\ Printed("uploaded")) => db = Finals

C6_Witness ==
  /\ Len(hist) = 2
  /\ hist[1].committed
  /\ hist[2].committed
  /\ hist[1].before["stops_maas"] # <<>>
  /\ hist[1].db["stops_maas"] # <<>>
  /\ hist[1].db["routes"] # <<>>
  /\ db = hist[1].db

\* C7: with the connection configuration absent, main() fails before any
\* input is read, any row is transformed or any script is written.
C7_ConfigFailFast ==
  (mode = "direct" /\ ~db_url) =>
     /\ \A et \in EntityTypes : ~raw[et].exists
     /\ ~final_routes.exists
     /\ ~final_stops_maas.exists
     /\ ~Printed("complete")
     /\ pc = "exit" => status = 1

\* C7 as amended: with the configuration absent, main() runs the
\* transformation first; when that completes the script is written, the
\* upload is skipped with a notice, the store is never connected to or
\* changed, and the run ends with status 0.
C7_AbsentConfigSkipsUpload ==
  (mode = "direct" /\ ~db_url) =>
     /\ pc \notin {"connect", "exec", "except"}
     /\ db = before
     /\ (pc \in {"ending", "exit"} /\ Printed("complete")) =>
          /\ status = 0
          /\ Printed("skip_upload")
          /\ file = ScriptFile(final_sql_statements)
     /\ Printed("skip_upload") => Printed("complete")

C7_Witness ==
  /\ mode = "direct"
  /\ ~db_url
  /\ pc = "exit"
  /\ Printed("skip_upload")
  /\ Len(file) > 4

LowerChar(c) ==
  CASE c = "J" -> "j" [] c = "R" -> "r" [] c = "T" -> "t" [] c = "X" -> "x"
    [] OTHER -> c
Lower(s) == [i \in 1..Len(s) |-> LowerChar(s[i])]
ContainsAnyCase(op, t) ==
  op.shape = "single" /\ Contains(Lower(op.vals[1]), Lower(t))

\* C8: every routes row is classified by the ordered rule matched in any
\* letter case: JR -> OP_JR_EAST, else Toei -> OP_TOEI, else OP_OTHER, and
\* has route_type 2.
C8_ClassifyAnyCase ==
  final_routes.exists =>
    \A i \in 1..Len(final_routes.rows) :
      LET op == raw["railway"].rows[i].operator
          row == final_routes.rows[i]
      IN /\ ContainsAnyCase(op, JR) => row[2] = Str(OP_JR_EAST)
         /\ (~ContainsAnyCase(op, JR) /\ ContainsAnyCase(op, Toei))
              => row[2] = Str(OP_TOEI)
         /\ (~ContainsAnyCase(op, JR) /\ ~ContainsAnyCase(op, Toei))
              => row[2] = Str(OP_OTHER)
         /\ row[5] = Num(2)

ContainsExact(op, t) == op.shape = "single" /\ Contains(op.vals[1], t)

\* C8 as amended: the same ordered, total, first-match-wins rule, matched in
\* the exact letter case of "JR" and "Toei"; an absent operator is OP_OTHER.
C8_ClassifyExactCase ==
  final_routes.exists =>
    /\ Len(final_routes.rows) = Len(raw["railway"].rows)
    /\ \A i \in 1..Len(final_routes.rows) :
         LET op == raw["railway"].rows[i].operator
             row == final_routes.rows[i]
         IN /\ ContainsExact(op, JR) => row[2] = Str(OP_JR_EAST)
            /\ (~ContainsExact(op, JR) /\ ContainsExact(op, Toei))
                 => row[2] = Str(OP_TOEI)
            /\ (~ContainsExact(op, JR) /\ ~ContainsExact(op, Toei))
                 => row[2] = Str(OP_OTHER)
            /\ row[5] = Num(2)

C8_Witness ==
  /\ final_routes.exists
  /\ \E i \in 1..Len(final_routes.rows) :
       /\ raw["railway"].rows[i].operator = Single(Toei \o JR)
       /\ final_routes.rows[i][2] = Str(OP_JR_EAST)
  /\ \E i \in 1..Len(final_routes.rows) :
       /\ raw["railway"].rows[i].operator = Single(<<"j", "r">> \o Toei)
       /\ final_routes.rows[i][2] = Str(OP_TOEI)

HasDot(s) == \E i \in 1..Len(s) : s[i] = "."
AfterLastDot(s) ==
  SubSeq(s, Max({ i \in 1..Len(s) : s[i] = "." }) + 1, Len(s))
StopSources == raw["station"].rows \o raw["stops"].rows

\* C9: a record whose URI has no '.' produces no row; every record whose
\* URI has a '.' produces exactly one row whose id is the text after the
\* final '.'.
C9_UnmappableExcluded ==
  final_stops_maas.exists =>
    LET mappable == { i \in 1..Len(StopSources) : HasDot(StopSources[i].sameAs) }
    IN /\ Len(final_stops_maas.rows) = Cardinality(mappable)
       /\ \A n \in 1..Len(final_stops_maas.rows) :
            \E i \in mappable :
              final_stops_maas.rows[n][1] = Str(AfterLastDot(StopSources[i].sameAs))

ExpectedId(s) ==
  IF ~HasDot(s) THEN (IF s = <<>> THEN NULL ELSE Str(s))
  ELSE IF AfterLastDot(s) = <<>> THEN NULL
  ELSE Str(AfterLastDot(s))

\* C9 as amended: every record produces exactly one row and one INSERT; the
\* id is the text after the final '.', the whole URI when it has no '.', and
\* NULL when nothing follows the final '.'.
C9_EveryRecordOneRow ==
  /\ final_stops_maas.exists =>
       /\ Len(final_stops_maas.rows) = Len(StopSources)
       /\ \A i \in 1..Len(StopSources) :
            final_stops_maas.rows[i][1] = ExpectedId(StopSources[i].sameAs)
  /\ final_routes.exists =>
       /\ Len(final_routes.rows) = Len(raw["railway"].rows)
       /\ \A i \in 1..Len(final_routes.rows) :
            final_routes.rows[i][1] = ExpectedId(raw["railway"].rows[i].sameAs)
  /\ Printed("complete") =>
       /\ Cardinality(InsertIdx(final_sql_statements, "stops_maas"))
            = Len(StopSources)
       /\ Cardinality(InsertIdx(final_sql_statements, "routes"))
            = Len(raw["railway"].rows)

C9_Witness ==
  /\ Printed("complete")
  /\ Len(StopSources) = 2
  /\ StopSources[1].sameAs = <<"s">>
  /\ final_stops_maas.rows[1][1] = Str(<<"s">>)
  /\ StopSources[2].sameAs = <<"P", ".", "q">>
  /\ final_stops_maas.rows[2][1] = Str(<<"q">>)

\* C10: every emitted script has, for each table of the fixed order, exactly
\* one TRUNCATE, placed before all INSERTs of that table, also when the
\* table has no rows.
C10_TruncateUnconditional ==
  (pc \in {"write", "returned"} \/ Printed("complete")) =>
    \A t \in Tables :
      /\ Cardinality(TruncateIdx(final_sql_statements, t)) = 1
      /\ \A i \in TruncateIdx(final_sql_statements, t) :
           \A j \in InsertIdx(final_sql_statements, t) : i < j
      /\ Printed("complete") =>
           Cardinality(TruncateIdx(file, t)) = 1

C10_Witness ==
  /\ Printed("complete")
  /\ final_routes.rows = <<>>
  /\ final_stops_maas.rows # <<>>
  /\ TruncateIdx(file, "routes") # {}

====
